---- MODULE Spec2Model ----
(***************************************************************************)
(* Model of the scheme component of httplike's URI type                    *)
(* (src/uri/scheme.rs): the byte classification table, the exact           *)
(* validator Scheme2::parse_exact with Scheme::try_from on top of it, the  *)
(* prefix scanner Scheme2::parse, and equality, hashing and as_str of      *)
(* Scheme.  Both cargo features "http" and "rtsp" are enabled.             *)
(*                                                                         *)
(* Bytes are the integers 0..255 and byte strings are sequences of them.   *)
(* The parsers are pure functions; they are checked under two              *)
(* specifications whose initial states draw the inputs from bounded sets   *)
(* and whose actions apply the functions:                                  *)
(*   Spec      two standalone strings, constructed and then compared and   *)
(*             hashed;                                                     *)
(*   SpecScan  a head and a tail whose concatenation is scanned, while     *)
(*             the head alone goes through the exact validator.            *)
(***************************************************************************)
EXTENDS Integers, Sequences, FiniteSets

VARIABLES
    s1,     \* first byte string: a standalone scheme, or the head of a URI
    s2,     \* second byte string: a standalone scheme, or the tail of a URI
    lhs,    \* result of Scheme::try_from(s1)
    rhs,    \* the second token: try_from(s2), a constant, or a slice
    eqRes,  \* result of lhs == rhs
    hl,     \* what hashing lhs wrote to the hasher
    hr,     \* what hashing rhs wrote to the hasher
    scan,   \* result of Scheme2::parse(s1 ++ s2)
    done    \* which of the calls have been made

vars == <<s1, s2, lhs, rhs, eqRes, hl, hr, scan, done>>

(***************************************************************************)
(* Values                                                                  *)
(***************************************************************************)

\* enum Scheme2<T> { None, Standard(Protocol), Other(T) }
None == [tag |-> "None"]

Standard(p) == [tag |-> "Standard", proto |-> p]

Other(v) == [tag |-> "Other", val |-> v]

\* enum Protocol { Http, Https, Rtsp, Rtsps }
Protocol == {"Http", "Https", "Rtsp", "Rtsps"}

\* Result<_, InvalidUri>
Ok(v) == [ok |-> TRUE, val |-> v]

Err(kind) == [ok |-> FALSE, err |-> kind]

\* The unit value () carried by Scheme2<()>::Other.
Unit == <<>>

MAX_SCHEME_LEN == 64

\* scheme = ALPHA *( ALPHA / DIGIT / "+" / "-" / "." )
\* SCHEME_CHARS[b] of the source is SCHEME_CHARS[b + 1] here.
SCHEME_CHARS == <<
      0,   0,   0,   0,   0,   0,   0,   0,   0,   0,   \*   0x
      0,   0,   0,   0,   0,   0,   0,   0,   0,   0,   \*   1x
      0,   0,   0,   0,   0,   0,   0,   0,   0,   0,   \*   2x
      0,   0,   0,   0,   0,   0,   0,   0,   0,   0,   \*   3x
      0,   0,   0,  43,   0,  45,  46,   0,  48,  49,   \*   4x
     50,  51,  52,  53,  54,  55,  56,  57,  58,   0,   \*   5x
      0,   0,   0,   0,   0,  65,  66,  67,  68,  69,   \*   6x
     70,  71,  72,  73,  74,  75,  76,  77,  78,  79,   \*   7x
     80,  81,  82,  83,  84,  85,  86,  87,  88,  89,   \*   8x
     90,   0,   0,   0,   0,   0,   0,  97,  98,  99,   \*   9x
    100, 101, 102, 103, 104, 105, 106, 107, 108, 109,   \*  10x
    110, 111, 112, 113, 114, 115, 116, 117, 118, 119,   \*  11x
    120, 121, 122,   0,   0,   0, 126,   0,   0,   0,   \*  12x
      0,   0,   0,   0,   0,   0,   0,   0,   0,   0,   \*  13x
      0,   0,   0,   0,   0,   0,   0,   0,   0,   0,   \*  14x
      0,   0,   0,   0,   0,   0,   0,   0,   0,   0,   \*  15x
      0,   0,   0,   0,   0,   0,   0,   0,   0,   0,   \*  16x
      0,   0,   0,   0,   0,   0,   0,   0,   0,   0,   \*  17x
      0,   0,   0,   0,   0,   0,   0,   0,   0,   0,   \*  18x
      0,   0,   0,   0,   0,   0,   0,   0,   0,   0,   \*  19x
      0,   0,   0,   0,   0,   0,   0,   0,   0,   0,   \*  20x
      0,   0,   0,   0,   0,   0,   0,   0,   0,   0,   \*  21x
      0,   0,   0,   0,   0,   0,   0,   0,   0,   0,   \*  22x
      0,   0,   0,   0,   0,   0,   0,   0,   0,   0,   \*  23x
      0,   0,   0,   0,   0,   0,   0,   0,   0,   0,   \*  24x
      0,   0,   0,   0,   0,   0   \*  25x
>>

\* u8::to_ascii_lowercase
to_ascii_lowercase(b) == IF b \in 65..90 THEN b + 32 ELSE b

\* <[u8]>::eq_ignore_ascii_case
eq_ignore_ascii_case(a, b) ==
    /\ Len(a) = Len(b)
    /\ \A i \in 1..Len(a) : to_ascii_lowercase(a[i]) = to_ascii_lowercase(b[i])

\* The literals the parsers compare against.
B_http == <<104, 116, 116, 112>>

B_https == <<104, 116, 116, 112, 115>>

B_rtsp == <<114, 116, 115, 112>>

B_rtsps == <<114, 116, 115, 112, 115>>

B_sep == <<58, 47, 47>>

B_slashes == <<47, 47>>

(***************************************************************************)
(* Scheme2::parse_exact                                                    *)
(***************************************************************************)

\* The loop `for &b in s` of parse_exact, from index i (0-based).
RECURSIVE exact_loop(_, _)
exact_loop(s, i) ==
    IF i >= Len(s) THEN Ok(Other(Unit))
    ELSE LET c == SCHEME_CHARS[s[i + 1] + 1] IN
         IF c = 58 THEN Err("InvalidScheme")
         ELSE IF c = 0 THEN Err("InvalidScheme")
         ELSE exact_loop(s, i + 1)

parse_exact(s) ==
    IF s = B_http THEN Ok(Standard("Http"))
    ELSE IF s = B_https THEN Ok(Standard("Https"))
    ELSE IF s = B_rtsp THEN Ok(Standard("Rtsp"))
    ELSE IF s = B_rtsps THEN Ok(Standard("Rtsps"))
    ELSE IF Len(s) > MAX_SCHEME_LEN THEN Err("SchemeTooLong")
    ELSE exact_loop(s, 0)

\* impl TryFrom<&[u8]> for Scheme (and through it TryFrom<&str>, FromStr)
try_from(s) ==
    LET r == parse_exact(s) IN
    IF ~r.ok THEN r
    ELSE IF r.val.tag = "None" THEN Err("InvalidScheme")
    ELSE IF r.val.tag = "Standard" THEN Ok(Standard(r.val.proto))
    ELSE Ok(Other(s))

(***************************************************************************)
(* Scheme2::parse                                                          *)
(***************************************************************************)

\* Mutant: the length test of the scan uses >= instead of >.
RECURSIVE scan_loop_ge(_, _)
scan_loop_ge(s, i) ==
    IF i >= Len(s) THEN Ok(None)
    ELSE LET c == SCHEME_CHARS[s[i + 1] + 1] IN
         IF c = 58 THEN
              IF Len(s) < i + 3 THEN Ok(None)
              ELSE IF SubSeq(s, i + 2, i + 3) # B_slashes THEN Ok(None)
              ELSE IF i >= MAX_SCHEME_LEN THEN Err("SchemeTooLong")
              ELSE Ok(Other(i))
         ELSE IF c = 0 THEN Ok(None)
         ELSE scan_loop_ge(s, i + 1)

\* The loop `for i in 0..s.len()` of parse, from index i (0-based); a
\* `break` leaves the loop for the final Ok(Scheme2::None).
RECURSIVE scan_loop(_, _)
scan_loop(s, i) ==
    IF i >= Len(s) THEN Ok(None)
    ELSE LET c == SCHEME_CHARS[s[i + 1] + 1] IN
         IF c = 58 THEN
              IF Len(s) < i + 3 THEN Ok(None)
              ELSE IF SubSeq(s, i + 2, i + 3) # B_slashes THEN Ok(None)
              ELSE IF i > MAX_SCHEME_LEN THEN Err("SchemeTooLong")
              ELSE Ok(Other(i))
         ELSE IF c = 0 THEN Ok(None)
         ELSE scan_loop(s, i + 1)

\* Mutant: the fast path compares the literals byte for byte.
parse_case_sensitive(s) ==
    IF Len(s) >= 7 /\ SubSeq(s, 1, 7) = B_http \o B_sep
        THEN Ok(Standard("Http"))
    ELSE IF Len(s) >= 7 /\ SubSeq(s, 1, 7) = B_rtsp \o B_sep
        THEN Ok(Standard("Rtsp"))
    ELSE IF Len(s) >= 8 /\ SubSeq(s, 1, 8) = B_https \o B_sep
        THEN Ok(Standard("Https"))
    ELSE IF Len(s) >= 8 /\ SubSeq(s, 1, 8) = B_rtsps \o B_sep
        THEN Ok(Standard("Rtsps"))
    ELSE IF Len(s) > 3 THEN scan_loop(s, 0)
    ELSE Ok(None)

\* Mutant: the scan reports the offset past the colon.
parse_past_colon(s) ==
    LET r == scan_loop(s, 0) IN
    IF Len(s) >= 7 /\ eq_ignore_ascii_case(SubSeq(s, 1, 7), B_http \o B_sep)
        THEN Ok(Standard("Http"))
    ELSE IF Len(s) >= 7 /\ eq_ignore_ascii_case(SubSeq(s, 1, 7), B_rtsp \o B_sep)
        THEN Ok(Standard("Rtsp"))
    ELSE IF Len(s) >= 8 /\ eq_ignore_ascii_case(SubSeq(s, 1, 8), B_https \o B_sep)
        THEN Ok(Standard("Https"))
    ELSE IF Len(s) >= 8 /\ eq_ignore_ascii_case(SubSeq(s, 1, 8), B_rtsps \o B_sep)
        THEN Ok(Standard("Rtsps"))
    ELSE IF Len(s) > 3 THEN
        (IF r.ok /\ r.val.tag = "Other" THEN Ok(Other(r.val.val + 1)) ELSE r)
    ELSE Ok(None)

parse(s) ==
    IF Len(s) >= 7 /\ eq_ignore_ascii_case(SubSeq(s, 1, 7), B_http \o B_sep)
        THEN Ok(Standard("Http"))
    ELSE IF Len(s) >= 7 /\ eq_ignore_ascii_case(SubSeq(s, 1, 7), B_rtsp \o B_sep)
        THEN Ok(Standard("Rtsp"))
    ELSE IF Len(s) >= 8 /\ eq_ignore_ascii_case(SubSeq(s, 1, 8), B_https \o B_sep)
        THEN Ok(Standard("Https"))
    ELSE IF Len(s) >= 8 /\ eq_ignore_ascii_case(SubSeq(s, 1, 8), B_rtsps \o B_sep)
        THEN Ok(Standard("Rtsps"))
    ELSE IF Len(s) > 3 THEN scan_loop(s, 0)
    ELSE Ok(None)

\* The caller of parse turns Other(n) into a token by slicing bytes[0..n].
from_slice(s, n) == Other(SubSeq(s, 1, n))

(***************************************************************************)
(* Scheme: PartialEq, Hash, constants                                      *)
(***************************************************************************)

\* Scheme::HTTP, Scheme::HTTPS, Scheme::RTSP, Scheme::RTSPS
SchemeConst(p) == Standard(p)

\* impl PartialEq for Scheme; the None arms are unreachable!() and have no
\* value here.
eq(a, b) ==
    CASE a.tag = "Standard" /\ b.tag = "Standard" -> a.proto = b.proto
      [] a.tag = "Other" /\ b.tag = "Other" -> eq_ignore_ascii_case(a.val, b.val)
      [] a.tag = "Standard" /\ b.tag = "Other" -> FALSE
      [] a.tag = "Other" /\ b.tag = "Standard" -> FALSE

\* One call of a Hasher method: write_u8(v) or write_usize(v).
Write(kind, v) == [write |-> kind, v |-> v]

\* Mutant: the bytes of an Other token are hashed as stored.
hash_verbatim(x) ==
    CASE x.tag = "None" -> <<>>
      [] x.tag = "Standard" /\ x.proto = "Http" -> <<Write("u8", 1)>>
      [] x.tag = "Standard" /\ x.proto = "Https" -> <<Write("u8", 2)>>
      [] x.tag = "Standard" /\ x.proto = "Rtsp" -> <<Write("u8", 3)>>
      [] x.tag = "Standard" /\ x.proto = "Rtsps" -> <<Write("u8", 4)>>
      [] x.tag = "Other" ->
           <<Write("usize", Len(x.val))>> \o
           [i \in 1..Len(x.val) |-> Write("u8", x.val[i])]

\* impl Hash for Scheme: the sequence of calls made on the hasher.
hash(x) ==
    CASE x.tag = "None" -> <<>>
      [] x.tag = "Standard" /\ x.proto = "Http" -> <<Write("u8", 1)>>
      [] x.tag = "Standard" /\ x.proto = "Https" -> <<Write("u8", 2)>>
      [] x.tag = "Standard" /\ x.proto = "Rtsp" -> <<Write("u8", 3)>>
      [] x.tag = "Standard" /\ x.proto = "Rtsps" -> <<Write("u8", 4)>>
      [] x.tag = "Other" ->
           <<Write("usize", Len(x.val))>> \o
           [i \in 1..Len(x.val) |-> Write("u8", to_ascii_lowercase(x.val[i]))]

(***************************************************************************)
(* Inputs                                                                  *)
(***************************************************************************)

MaxHeadLen == 2

MaxTailLen == 2

MaxSecondLen == 2

\* a A 1 + ~ : !
HeadAlphabet == {97, 65, 49, 43, 126, 58, 33}

\* : / a
TailAlphabet == {58, 47, 97}

\* a A
SecondAlphabet == {97, 65}

RECURSIVE SeqsOfLen(_, _)
SeqsOfLen(A, n) ==
    IF n = 0 THEN {<<>>}
    ELSE {Append(x, c) : x \in SeqsOfLen(A, n - 1), c \in A}

ShortSeqs(A, n) == UNION {SeqsOfLen(A, k) : k \in 0..n}

RECURSIVE Rep(_, _)
Rep(c, n) == IF n = 0 THEN <<>> ELSE Append(Rep(c, n - 1), c)

KnownNames == {B_http, B_https, B_rtsp, B_rtsps}

\* The ASCII case variants of a lowercase name.
RECURSIVE Variants(_)
Variants(p) ==
    IF p = <<>> THEN {<<>>}
    ELSE {<<c>> \o v : c \in {p[1], p[1] - 32}, v \in Variants(Tail(p))}

AllVariants == UNION {Variants(p) : p \in KnownNames}

\* Tokens around the length limit: 63 to 66 pad bytes and at most one more.
LongTokens ==
    {Rep(c, n) \o x : c \in {97, 90},
                      n \in (MAX_SCHEME_LEN - 1)..(MAX_SCHEME_LEN + 2),
                      x \in ShortSeqs(HeadAlphabet, 1)}

Heads ==
    ShortSeqs(HeadAlphabet, MaxHeadLen) \cup AllVariants
        \cup {Append(v, 97) : v \in AllVariants} \cup LongTokens

Tails ==
    ShortSeqs(TailAlphabet, MaxTailLen)
        \cup {B_sep \o x : x \in ShortSeqs(TailAlphabet, MaxTailLen)}

Seconds ==
    ShortSeqs(SecondAlphabet, MaxSecondLen) \cup KnownNames
        \cup {<<72, 84, 84, 80>>, <<72, 116, 116, 112>>,
              <<72, 84, 84, 80, 83>>, <<82, 84, 83, 80>>}

(***************************************************************************)
(* The calls                                                               *)
(***************************************************************************)

Unset == Err("Unset")

Start ==
    /\ lhs = Unset
    /\ rhs = Unset
    /\ eqRes = FALSE
    /\ hl = <<>>
    /\ hr = <<>>
    /\ scan = Unset
    /\ done = {}

Init == s1 \in Heads /\ s2 \in Seconds /\ Start

InitScan == s1 \in Heads /\ s2 \in Tails /\ Start

\* lhs = Scheme::try_from(s1)
TryFromLhs ==
    /\ "lhs" \notin done
    /\ lhs' = try_from(s1)
    /\ done' = done \cup {"lhs"}
    /\ UNCHANGED <<s1, s2, rhs, eqRes, hl, hr, scan>>

\* rhs = Scheme::try_from(s2)
TryFromRhs ==
    /\ "lhs" \in done
    /\ "rhs" \notin done
    /\ rhs' = try_from(s2)
    /\ done' = done \cup {"rhs", "try_rhs"}
    /\ UNCHANGED <<s1, s2, lhs, eqRes, hl, hr, scan>>

\* rhs = Scheme::HTTP, Scheme::HTTPS, Scheme::RTSP or Scheme::RTSPS
ConstRhs ==
    /\ "lhs" \in done
    /\ "rhs" \notin done
    /\ \E p \in Protocol : rhs' = Ok(SchemeConst(p))
    /\ done' = done \cup {"rhs"}
    /\ UNCHANGED <<s1, s2, lhs, eqRes, hl, hr, scan>>

\* scan = Scheme2::parse(s1 ++ s2)
Scan ==
    /\ "scan" \notin done
    /\ scan' = parse(s1 \o s2)
    /\ done' = done \cup {"scan"}
    /\ UNCHANGED <<s1, s2, lhs, rhs, eqRes, hl, hr>>

\* rhs = the token the caller builds from the boundary the scan reported
Slice ==
    /\ "scan" \in done
    /\ "rhs" \notin done
    /\ scan.ok
    /\ scan.val.tag = "Other"
    /\ rhs' = Ok(from_slice(s1 \o s2, scan.val.val))
    /\ done' = done \cup {"rhs", "slice"}
    /\ UNCHANGED <<s1, s2, lhs, eqRes, hl, hr, scan>>

\* eqRes = (lhs == rhs)
Compare ==
    /\ "lhs" \in done
    /\ "rhs" \in done
    /\ "eq" \notin done
    /\ lhs.ok
    /\ rhs.ok
    /\ eqRes' = eq(lhs.val, rhs.val)
    /\ done' = done \cup {"eq"}
    /\ UNCHANGED <<s1, s2, lhs, rhs, hl, hr, scan>>

\* lhs.hash(&mut hl); rhs.hash(&mut hr)
HashBoth ==
    /\ "eq" \in done
    /\ "hash" \notin done
    /\ hl' = hash(lhs.val)
    /\ hr' = hash(rhs.val)
    /\ done' = done \cup {"hash"}
    /\ UNCHANGED <<s1, s2, lhs, rhs, eqRes, scan>>

Next == TryFromLhs \/ TryFromRhs \/ ConstRhs \/ Compare \/ HashBoth

Spec == Init /\ [][Next]_vars

NextScan == Scan \/ TryFromLhs \/ Slice \/ Compare

SpecScan == InitScan /\ [][NextScan]_vars

(***************************************************************************)
(* Vocabulary of the properties                                            *)
(***************************************************************************)

IsAlpha(b) == b \in 65..90 \/ b \in 97..122

IsDigit(b) == b \in 48..57

\* ALPHA / DIGIT / "+" / "-" / "."
IsSchemeChar(b) == IsAlpha(b) \/ IsDigit(b) \/ b \in {43, 45, 46}

AllSchemeChars(s) == \A i \in 1..Len(s) : IsSchemeChar(s[i])

\* A known protocol name in any ASCII case.
IsKnownName(s) == \E p \in KnownNames : eq_ignore_ascii_case(s, p)

ProtocolOf(p) ==
    CASE p = B_http -> "Http"
      [] p = B_https -> "Https"
      [] p = B_rtsp -> "Rtsp"
      [] p = B_rtsps -> "Rtsps"

StartsWithSep(s) == Len(s) >= 3 /\ SubSeq(s, 1, 3) = B_sep

IsOther(r) == r.ok /\ r.val.tag = "Other"

\* The bytes handed to the scanner.
Uri == s1 \o s2

\* The scanner's fast path applies to s.
FastPath(s) ==
    \E p \in KnownNames :
        Len(s) >= Len(p) + 3
            /\ eq_ignore_ascii_case(SubSeq(s, 1, Len(p) + 3), p \o B_sep)

\* Position (1-based) of the first byte of s that is not a scheme
\* character, or Len(s) + 1.
RECURSIVE FirstStop(_, _)
FirstStop(s, i) ==
    IF i > Len(s) \/ ~IsSchemeChar(s[i]) THEN i ELSE FirstStop(s, i + 1)

(***************************************************************************)
(* Properties of Spec: standalone construction, equality, hashing          *)
(***************************************************************************)

\* C1: for every known protocol name p and every ASCII case variant v of
\* p, try_from(v) succeeds, equals try_from(p) and writes the same sequence
\* to the hasher as try_from(p).
C1_CaseVariantsConstructEqual ==
    (/\ s2 \in KnownNames
     /\ s1 \in Variants(s2)
     /\ "lhs" \in done
     /\ "try_rhs" \in done)
    => /\ lhs.ok
       /\ rhs.ok
       /\ "eq" \in done => eqRes
       /\ "hash" \in done => hl = hr

\* C2: try_from of the empty byte string is the InvalidScheme error.
C2_EmptyRejected ==
    ("lhs" \in done /\ Len(s1) = 0) => lhs = Err("InvalidScheme")

\* C3: for an input of at most 64 bytes that is not a literal known
\* protocol name, try_from succeeds only if every byte is ALPHA, DIGIT,
\* "+", "-" or "."; otherwise the result is InvalidScheme; every byte of an
\* Other payload is in that alphabet.
C3_OnlySchemeAlphabet ==
    ("lhs" \in done /\ Len(s1) <= MAX_SCHEME_LEN /\ s1 \notin KnownNames)
    => /\ lhs.ok => AllSchemeChars(s1)
       /\ ~AllSchemeChars(s1) => lhs = Err("InvalidScheme")
       /\ IsOther(lhs) => AllSchemeChars(lhs.val.val)

\* C5: when two tokens compare equal, hashing them writes the same
\* sequence of values to the hasher.
C5_EqualTokensHashAlike ==
    ("eq" \in done /\ "hash" \in done /\ eqRes) => hl = hr

\* C5 witness: two Other tokens that differ in case were compared equal and
\* hashed.
C5_Witness ==
    /\ "eq" \in done
    /\ "hash" \in done
    /\ eqRes
    /\ IsOther(lhs)
    /\ IsOther(rhs)
    /\ lhs.val.val # rhs.val.val
    /\ Len(lhs.val.val) = 2

\* C8: the first byte of an Other payload is a letter, and an input that
\* starts with a digit, "+", "-" or "." is rejected with InvalidScheme.
C8_FirstByteIsLetter ==
    "lhs" \in done
    => /\ (IsOther(lhs) /\ Len(lhs.val.val) > 0) => IsAlpha(lhs.val.val[1])
       /\ (/\ Len(s1) \in 1..MAX_SCHEME_LEN
           /\ (IsDigit(s1[1]) \/ s1[1] \in {43, 45, 46}))
          => lhs = Err("InvalidScheme")

(***************************************************************************)
(* Properties of SpecScan: the scanner, and the scanner against the exact  *)
(* validator                                                               *)
(***************************************************************************)

\* C4: for a token t of scheme characters only, with 64 bytes try_from(t)
\* succeeds and the scan of t ++ "://" ++ suffix reports Other(64); with 65
\* bytes both report SchemeTooLong.
C4_LengthBoundAgrees ==
    (AllSchemeChars(s1) /\ StartsWithSep(s2))
    => /\ Len(s1) = MAX_SCHEME_LEN
          => /\ "lhs" \in done => lhs = Ok(Other(s1))
             /\ "scan" \in done => scan = Ok(Other(MAX_SCHEME_LEN))
       /\ Len(s1) = MAX_SCHEME_LEN + 1
          => /\ "lhs" \in done => lhs = Err("SchemeTooLong")
             /\ "scan" \in done => scan = Err("SchemeTooLong")

\* C4 witness: a 65 byte token was rejected as too long by both parsers.
C4_Witness ==
    /\ AllSchemeChars(s1)
    /\ StartsWithSep(s2)
    /\ Len(s1) = MAX_SCHEME_LEN + 1
    /\ "lhs" \in done
    /\ "scan" \in done
    /\ lhs = Err("SchemeTooLong")
    /\ scan = Err("SchemeTooLong")

\* C6: for a generic scheme t (1 to 64 scheme characters, not a known
\* protocol name) the scan of t ++ "://" ++ suffix reports Other(len(t)),
\* and the token sliced at that boundary equals try_from(t).
C6_ScannerAgreesWithExact ==
    (/\ Len(s1) \in 1..MAX_SCHEME_LEN
     /\ AllSchemeChars(s1)
     /\ ~IsKnownName(s1)
     /\ StartsWithSep(s2))
    => /\ "scan" \in done => scan = Ok(Other(Len(s1)))
       /\ "lhs" \in done => lhs.ok
       /\ "slice" \in done => rhs = Ok(Other(s1))
       /\ "eq" \in done => eqRes

\* C6 witness: a generic scheme was scanned, sliced, validated on its own
\* and the two tokens were compared equal.
C6_Witness ==
    /\ Len(s1) \in 1..MAX_SCHEME_LEN
    /\ AllSchemeChars(s1)
    /\ ~IsKnownName(s1)
    /\ IsAlpha(s1[1])
    /\ Len(s1) > 1
    /\ StartsWithSep(s2)
    /\ Len(s2) > 3
    /\ "lhs" \in done
    /\ "slice" \in done
    /\ "eq" \in done
    /\ eqRes

\* C7: the scan of v ++ "://" ++ suffix, v an ASCII case variant of a
\* known protocol name p, reports the known protocol p.
C7_FastPathCaseInsensitive ==
    \A p \in KnownNames :
        (s1 \in Variants(p) /\ StartsWithSep(s2) /\ "scan" \in done)
        => scan = Ok(Standard(ProtocolOf(p)))

\* C7 witness: "RTSPS://" with an empty suffix was scanned as Rtsps.
C7_Witness ==
    /\ s1 = <<82, 84, 83, 80, 83>>
    /\ s2 = B_sep
    /\ "scan" \in done
    /\ scan = Ok(Standard("Rtsps"))

\* C9: when the fast path does not apply, the scanner reports no scheme
\* (a) if the bytes before the first ":" are scheme characters and that ":"
\* is not followed by "//", and (b) if a byte that is neither a scheme
\* character nor ":" comes before any ":".
C9_AbortsAtFirstStop ==
    LET k == FirstStop(Uri, 1) IN
    ("scan" \in done /\ ~FastPath(Uri) /\ k <= Len(Uri))
    => /\ (Uri[k] = 58 /\ ~StartsWithSep(SubSeq(Uri, k, Len(Uri))))
          => scan = Ok(None)
       /\ Uri[k] # 58 => scan = Ok(None)

\* The part (a) of C9 alone: the abort at a colon without "//".
C9_ColonPart ==
    LET k == FirstStop(Uri, 1) IN
    (/\ "scan" \in done
     /\ ~FastPath(Uri)
     /\ k <= Len(Uri)
     /\ Uri[k] = 58
     /\ ~StartsWithSep(SubSeq(Uri, k, Len(Uri))))
    => scan = Ok(None)

\* C10: a boundary Other(n) reported by the scanner has 1 <= n <= 64.
C10_BoundaryInRange ==
    ("scan" \in done /\ IsOther(scan))
    => scan.val.val \in 1..MAX_SCHEME_LEN

====
